---- MODULE Spec2Model ----
(***************************************************************************)
(* Model of the Student Study & Deadline Manager (src/App.py): the Task    *)
(* entity, the StudyManager collection and the JSON storage document.      *)
(* One action per menu operation of main(); every action is the whole      *)
(* handler, including its trailing _save_tasks().                          *)
(***************************************************************************)
EXTENDS Integers, Sequences, FiniteSets, TLC

\* ---------------------------------------------------------------- bounds
\* largest id an add may assign (add is disabled once _next_id exceeds it)
MaxId == 2
\* the wall clock runs over 0..MaxClock
MaxClock == 1
\* wall-clock instants in a day: instant 0 of a day is its midnight
TicksPerDay == 2
\* most records in a stored document the listings are checked on
MaxListLen == 2

\* --------------------------------------------------------------- strings
\* Python strings are atomic here; str.lower(), str.capitalize() and
\* str.strip() are tabulated over the finite vocabulary the model uses.
ALLOWED_PRIORITIES == <<"Highest Priorities", "Medium Priorities", "Lowest Priorities">>

ALLOWED_STATUSES == <<"Pending", "Completed">>

\* what a user may type at the priority prompt
PriorityInputs == {"Highest Priorities", "High", "medium"}

\* what a user may type at the status prompt
StatusInputs == {"pending", "Completed", "Done"}

\* what a user may type at the title and description prompts
TextInputs == {"Essay", " Essay ", " "}

\* what a user may type at the due-date prompt
DateInputs == {"2025-01-10", "soon"}

\* str.lower()
Lower(s) ==
    CASE s \in {"Highest Priorities", "highest priorities", "Highest priorities"}
             -> "highest priorities"
      [] s \in {"Medium Priorities", "medium priorities", "Medium priorities"}
             -> "medium priorities"
      [] s \in {"Lowest Priorities", "lowest priorities", "Lowest priorities"}
             -> "lowest priorities"
      [] s \in {"High", "high"} -> "high"
      [] s \in {"Medium", "medium"} -> "medium"
      [] s \in {"Low", "low"} -> "low"
      [] s \in {"Pending", "pending"} -> "pending"
      [] s \in {"Completed", "completed", "COMPLETED"} -> "completed"
      [] s \in {"Done", "done"} -> "done"
      [] s \in {"yes", "YES", "Yes"} -> "yes"
      [] s \in {"no", "NO", "No"} -> "no"
      [] OTHER -> s

\* str.capitalize(): first character upper case, the rest lower case
Capitalize(s) ==
    CASE Lower(s) = "highest priorities" -> "Highest priorities"
      [] Lower(s) = "medium priorities" -> "Medium priorities"
      [] Lower(s) = "lowest priorities" -> "Lowest priorities"
      [] Lower(s) = "high" -> "High"
      [] Lower(s) = "medium" -> "Medium"
      [] Lower(s) = "low" -> "Low"
      [] Lower(s) = "pending" -> "Pending"
      [] Lower(s) = "completed" -> "Completed"
      [] Lower(s) = "done" -> "Done"
      [] OTHER -> s

\* str.strip()
Strip(s) ==
    CASE s = " Essay " -> "Essay"
      [] s = " " -> ""
      [] OTHER -> s

\* datetime.strptime(s, '%Y-%m-%d') succeeds
ParsesAsDate(s) == s \in {"2025-01-05", "2025-01-06", "2025-01-09", "2025-01-10"}

\* the date as a number of days; day 0 is the day the clock starts in
DateOrdinal(s) ==
    CASE s = "2025-01-05" -> 0 - 1
      [] s = "2025-01-06" -> 0
      [] s = "2025-01-09" -> 3
      [] s = "2025-01-10" -> 4
      [] OTHER -> 0

Range(f) == {f[i] : i \in DOMAIN f}

\* ------------------------------------------------------------ validation
validate_priority(priority_str) ==
    Lower(priority_str) \in {Lower(p) : p \in Range(ALLOWED_PRIORITIES)}

validate_status(status_str) ==
    Lower(status_str) \in {Lower(s) : s \in Range(ALLOWED_STATUSES)}

\* ------------------------------------------------------------------ Task
\* Task.__init__ at wall-clock time t: the new Task, or the ValueError
TaskInit(task_id, title, description, due_date, priority, status, t) ==
    IF task_id <= 0 THEN [ok |-> FALSE]
    ELSE IF title = "" \/ description = "" \/ due_date = "" THEN [ok |-> FALSE]
    ELSE IF ~validate_priority(priority) THEN [ok |-> FALSE]
    ELSE IF ~validate_status(status) THEN [ok |-> FALSE]
    ELSE [ok |-> TRUE,
          task |-> [id |-> task_id,
                    title |-> Strip(title),
                    description |-> Strip(description),
                    due_date |-> due_date,
                    priority |-> Capitalize(priority),
                    status |-> Capitalize(status),
                    created_at |-> t]]

to_dict(task) ==
    [id |-> task.id, title |-> task.title, description |-> task.description,
     due_date |-> task.due_date, priority |-> task.priority,
     status |-> task.status, created_at |-> task.created_at]

\* dict.get(key, default)
Get(d, key, default) == IF key \in DOMAIN d THEN d[key] ELSE default

\* Task.from_dict at wall-clock time t: a missing required key is a KeyError
from_dict(task_dict, t) ==
    IF ~({"id", "title", "description", "due_date"} \subseteq DOMAIN task_dict)
    THEN [ok |-> FALSE]
    ELSE TaskInit(task_dict["id"], task_dict["title"], task_dict["description"],
                  task_dict["due_date"],
                  Get(task_dict, "priority", "Medium"),
                  Get(task_dict, "status", "Pending"), t)

\* --------------------------------------------------------- storage document
\* the file student_tasks.json: missing, not parseable as JSON, or a JSON
\* list of records
Absent == [kind |-> "absent", data |-> <<>>]

Corrupt == [kind |-> "corrupt", data |-> <<>>]

Json(records) == [kind |-> "json", data |-> records]

\* [task.to_dict() for task in self.tasks]
Serialize(ts) == [i \in 1..Len(ts) |-> to_dict(ts[i])]

Ids(ts) == {ts[i].id : i \in 1..Len(ts)}

SetMax(S) == CHOOSE m \in S : \A x \in S : x <= m

\* a load that restarts the id tracker from the number of tasks loaded
LoadEffect_count(f, t) ==
    IF f.kind # "json" \/ \E i \in 1..Len(f.data) : ~from_dict(f.data[i], t).ok
    THEN [tasks |-> <<>>, next_id |-> 1,
          outcome |-> IF f.kind = "absent" THEN "no_file"
                      ELSE IF f.kind = "corrupt" THEN "corrupt" ELSE "error"]
    ELSE LET ts == [i \in 1..Len(f.data) |-> from_dict(f.data[i], t).task]
         IN  [tasks |-> ts, next_id |-> Len(ts) + 1, outcome |-> "loaded"]

\* a load that skips the records it cannot reconstruct and keeps the others
LoadEffect_skipBad(f, t) ==
    IF f.kind = "absent"
    THEN [tasks |-> <<>>, next_id |-> 1, outcome |-> "no_file"]
    ELSE IF f.kind = "corrupt"
    THEN [tasks |-> <<>>, next_id |-> 1, outcome |-> "corrupt"]
    ELSE LET good == SelectSeq(f.data, LAMBDA d : from_dict(d, t).ok)
             ts == [i \in 1..Len(good) |-> from_dict(good[i], t).task]
         IN  [tasks |-> ts,
              next_id |-> IF ts # <<>> THEN SetMax(Ids(ts)) + 1 ELSE 1,
              outcome |-> IF Len(good) = Len(f.data) THEN "loaded" ELSE "error"]

\* StudyManager.__init__ and _load_tasks at wall-clock time t
LoadEffect(f, t) ==
    IF f.kind = "absent"
    THEN [tasks |-> <<>>, next_id |-> 1, outcome |-> "no_file"]
    ELSE IF f.kind = "corrupt"
    THEN [tasks |-> <<>>, next_id |-> 1, outcome |-> "corrupt"]
    ELSE IF \E i \in 1..Len(f.data) : ~from_dict(f.data[i], t).ok
    THEN [tasks |-> <<>>, next_id |-> 1, outcome |-> "error"]
    ELSE LET ts == [i \in 1..Len(f.data) |-> from_dict(f.data[i], t).task]
         IN  [tasks |-> ts,
              next_id |-> IF ts # <<>> THEN SetMax(Ids(ts)) + 1 ELSE 1,
              outcome |-> "loaded"]

\* a load that removes a document it cannot parse
FileAfterLoad_removeBad(f) == IF f.kind = "corrupt" THEN Absent ELSE f

\* _load_tasks opens the document for reading only: it is left as it was
FileAfterLoad(f) == f

\* a save that adds the records to those of the document instead of
\* replacing them
SaveOutcomes_append(ts, f) ==
    {[file |-> Json(f.data \o Serialize(ts)), res |-> "ok"],
     [file |-> f, res |-> "failed"],
     [file |-> Corrupt, res |-> "failed"]}

\* a save that defers the write: it reports success and leaves the document
SaveOutcomes_deferred(ts, f) ==
    {[file |-> f, res |-> "ok"],
     [file |-> f, res |-> "failed"],
     [file |-> Corrupt, res |-> "failed"]}

\* _save_tasks: the outcomes of one call. open() may fail (document
\* untouched), or the write may fail after open() truncated the document.
SaveOutcomes(ts, f) ==
    {[file |-> Json(Serialize(ts)), res |-> "ok"],
     [file |-> f, res |-> "failed"],
     [file |-> Corrupt, res |-> "failed"]}

\* ------------------------------------------------------------ collection
\* an add that takes the new id from the collection (largest id + 1)
\* instead of the id tracker
AddEffect_maxPlusOne(ts, nid, title, description, due_date, priority, t) ==
    LET m == IF ts = <<>> THEN 0 ELSE SetMax(Ids(ts))
        r == TaskInit(m + 1, title, description, due_date, priority, "Pending", t)
    IN  IF r.ok
        THEN [ok |-> TRUE, tasks |-> Append(ts, r.task), next_id |-> nid + 1]
        ELSE [ok |-> FALSE, tasks |-> ts, next_id |-> nid]

\* an add that advances the id tracker before it constructs the Task
AddEffect_burnId(ts, nid, title, description, due_date, priority, t) ==
    LET r == TaskInit(nid, title, description, due_date, priority, "Pending", t)
    IN  IF r.ok
        THEN [ok |-> TRUE, tasks |-> Append(ts, r.task), next_id |-> nid + 1]
        ELSE [ok |-> FALSE, tasks |-> ts, next_id |-> nid + 1]

\* add_task, the try block: construct, append, advance the id tracker
AddEffect(ts, nid, title, description, due_date, priority, t) ==
    LET r == TaskInit(nid, title, description, due_date, priority, "Pending", t)
    IN  IF r.ok
        THEN [ok |-> TRUE, tasks |-> Append(ts, r.task), next_id |-> nid + 1]
        ELSE [ok |-> FALSE, tasks |-> ts, next_id |-> nid]

\* a lookup whose default is the first task instead of None
Find_firstAsDefault(ts, task_id) ==
    IF task_id \in Ids(ts)
    THEN CHOOSE i \in 1..Len(ts) :
            ts[i].id = task_id /\ \A j \in 1..(i - 1) : ts[j].id # task_id
    ELSE IF ts # <<>> THEN 1 ELSE 0

\* next((task for task in self.tasks if task.id == task_id), None):
\* the index of the first match, 0 for None
Find(ts, task_id) ==
    IF task_id \in Ids(ts)
    THEN CHOOSE i \in 1..Len(ts) :
            ts[i].id = task_id /\ \A j \in 1..(i - 1) : ts[j].id # task_id
    ELSE 0

\* an update that assigns and saves without comparing the statuses
UpdateEffect_alwaysSave(ts, task_id, new_status_str) ==
    LET i == Find(ts, task_id)
    IN  IF i = 0 THEN [outcome |-> "update_not_found", tasks |-> ts]
        ELSE [outcome |-> "updated",
              tasks |-> [ts EXCEPT ![i].status = Capitalize(new_status_str)]]

\* update_task_status after the id was read
UpdateEffect(ts, task_id, new_status_str) ==
    LET i == Find(ts, task_id)
        new_status == Capitalize(new_status_str)
    IN  IF i = 0 THEN [outcome |-> "update_not_found", tasks |-> ts]
        ELSE IF ts[i].status = new_status
        THEN [outcome |-> "update_noop", tasks |-> ts]
        ELSE [outcome |-> "updated",
              tasks |-> [ts EXCEPT ![i].status = new_status]]

\* [task for task in self.tasks if task.id != task_id]
RECURSIVE Without(_, _)
Without(ts, task_id) ==
    IF ts = <<>> THEN <<>>
    ELSE IF Head(ts).id = task_id THEN Without(Tail(ts), task_id)
    ELSE <<Head(ts)>> \o Without(Tail(ts), task_id)

\* delete_task after the id was read
DeleteEffect(ts, task_id, confirm) ==
    IF Find(ts, task_id) = 0 THEN [outcome |-> "delete_not_found", tasks |-> ts]
    ELSE IF Lower(confirm) = "yes"
    THEN [outcome |-> "deleted", tasks |-> Without(ts, task_id)]
    ELSE [outcome |-> "delete_cancelled", tasks |-> ts]

\* the tasks view_tasks keeps: all of them, or those of one status
RECURSIVE Filtered(_, _)
Filtered(ts, filter_status) ==
    IF ts = <<>> THEN <<>>
    ELSE IF filter_status = "" \/ Head(ts).status = Capitalize(filter_status)
    THEN <<Head(ts)>> \o Filtered(Tail(ts), filter_status)
    ELSE Filtered(Tail(ts), filter_status)

\* view_tasks raises ValueError: some task it sorts or displays has a
\* due_date that strptime rejects
ViewRaises(ts, filter_status) ==
    \E x \in Range(Filtered(ts, filter_status)) : ~ParsesAsDate(x.due_date)

\* (due_date_obj - today).days: a timedelta counts whole days downwards, and
\* today = datetime.now() carries the time of day
days_left(due_date, t) == (DateOrdinal(due_date) * TicksPerDay - t) \div TicksPerDay

\* Task.display: due_status_text
due_status_text(task, t) ==
    IF task.status = "Pending"
    THEN IF days_left(task.due_date, t) < 0 THEN "OVERDUE!"
         ELSE IF days_left(task.due_date, t) = 0 THEN "Due Today!"
         ELSE IF days_left(task.due_date, t) <= 3 THEN "day(s) left!"
         ELSE "days left"
    ELSE "Completed"

\* sorted() puts an element after those whose key is not larger: it is stable
RECURSIVE InsertByKey(_, _)
InsertByKey(e, s) ==
    IF s = <<>> THEN <<e>>
    ELSE IF Head(s).key <= e.key
    THEN <<Head(s)>> \o InsertByKey(e, Tail(s))
    ELSE <<e>> \o s

\* sorted(rows, key=...) on rows [task, key]
RECURSIVE Sorted(_)
Sorted(rows) ==
    IF rows = <<>> THEN <<>>
    ELSE InsertByKey(rows[Len(rows)], Sorted(SubSeq(rows, 1, Len(rows) - 1)))

TasksOf(rows) == [i \in 1..Len(rows) |-> rows[i].task]

\* priority_order.get(t.priority, 99)
priority_order(p) ==
    CASE p = "High" -> 1
      [] p = "Medium" -> 2
      [] p = "Low" -> 3
      [] OTHER -> 99

\* t.title.lower() as a sort key: the rank of the lower-case title among the
\* titles of the model
TitleKey(s) == IF s \in {"Essay", "essay"} THEN 1 ELSE 0

ByDueDate(ts) ==
    TasksOf(Sorted([i \in 1..Len(ts) |->
                      [task |-> ts[i], key |-> DateOrdinal(ts[i].due_date)]]))

\* a due-date order that sorts the tasks of both statuses together
SortedTasks_oneRun(filtered_tasks, sort_by) ==
    IF sort_by = "due_date" THEN ByDueDate(filtered_tasks)
    ELSE IF sort_by = "priority"
    THEN TasksOf(Sorted([i \in 1..Len(filtered_tasks) |->
                  [task |-> filtered_tasks[i],
                   key |-> priority_order(filtered_tasks[i].priority)]]))
    ELSE IF sort_by = "title"
    THEN TasksOf(Sorted([i \in 1..Len(filtered_tasks) |->
                  [task |-> filtered_tasks[i],
                   key |-> TitleKey(filtered_tasks[i].title)]]))
    ELSE filtered_tasks

\* view_tasks: sorted_tasks
SortedTasks(filtered_tasks, sort_by) ==
    IF sort_by = "due_date"
    THEN ByDueDate(Filtered(filtered_tasks, "Pending"))
            \o ByDueDate(Filtered(filtered_tasks, "Completed"))
    ELSE IF sort_by = "priority"
    THEN TasksOf(Sorted([i \in 1..Len(filtered_tasks) |->
                  [task |-> filtered_tasks[i],
                   key |-> priority_order(filtered_tasks[i].priority)]]))
    ELSE IF sort_by = "title"
    THEN TasksOf(Sorted([i \in 1..Len(filtered_tasks) |->
                  [task |-> filtered_tasks[i],
                   key |-> TitleKey(filtered_tasks[i].title)]]))
    ELSE filtered_tasks

\* the tasks display() prints before one of them raises
RECURSIVE Displayed(_)
Displayed(ts) ==
    IF ts = <<>> \/ ~ParsesAsDate(Head(ts).due_date) THEN <<>>
    ELSE <<Head(ts)>> \o Displayed(Tail(ts))

\* nothing listed
NoListing == [filter_status |-> "", sort_by |-> "", rows |-> <<>>]

\* view_tasks at wall-clock time t: the rows it prints, each a task with
\* its due_status_text. Sorting by due date parses every date before
\* anything is printed.
Listing(ts, filter_status, sort_by, t) ==
    LET filtered_tasks == Filtered(ts, filter_status)
        printed ==
            IF sort_by = "due_date" /\ ViewRaises(ts, filter_status)
            THEN <<>>
            ELSE Displayed(SortedTasks(filtered_tasks, sort_by))
    IN  [filter_status |-> filter_status, sort_by |-> sort_by,
         rows |-> [i \in 1..Len(printed) |->
                     [task |-> printed[i],
                      due |-> due_status_text(printed[i], t)]]]

\* an update that always goes on to ask for the id
AnyPending_always(ts) == TRUE

\* any(t.status == "Pending" for t in self.tasks)
AnyPending(ts) == \E x \in Range(ts) : x.status = "Pending"

\* a caller that restores the collection when the save failed
Committed_rollback(before, after, res) == IF res = "failed" THEN before ELSE after

\* _save_tasks catches the exception and only prints it: the collection the
\* caller already mutated stands whatever the result of the save
Committed(before, after, res) == after

\* ----------------------------------------------------------------- state
VARIABLES
    tasks,      \* StudyManager.tasks
    next_id,    \* StudyManager._next_id
    file,       \* the storage document
    now,        \* datetime.now()
    proc,       \* "running", "exited" (choice 7) or "crashed" (uncaught exception)
    last,       \* the last operation: its outcome, its inputs, its save
    freed,      \* ids of the tasks deleted so far, over all runs
    runEmpty,   \* this run's load produced an empty collection
    nAdds,      \* successful adds of this run
    audit,      \* freed is recorded in this behaviour (SpecAudit)
    shown,      \* what view_tasks printed in the last operation
    listed      \* shown is recorded in this behaviour (SpecList)

vars == <<tasks, next_id, file, now, proc, last, freed, runEmpty, nAdds, audit,
          shown, listed>>

Op(op, id, status, description, save) ==
    [op |-> op, id |-> id, status |-> status, description |-> description,
     save |-> save]

\* documents a first run may find that this program did not write: one
\* that is not JSON, one with a record of an older layout (no priority, no
\* status) after a complete record, one whose record only lacks the status,
\* and one whose record has a due_date that is no date
ForeignDocs ==
    {Corrupt,
     Json(<<[id |-> 1, title |-> "Essay", description |-> "Essay",
             due_date |-> "2025-01-10", priority |-> "Highest priorities",
             status |-> "Pending", created_at |-> 0],
            [id |-> 2, title |-> "Essay", description |-> "Essay",
             due_date |-> "2025-01-10"]>>),
     Json(<<[id |-> 1, title |-> "Essay", description |-> "Essay",
             due_date |-> "2025-01-10", priority |-> "Lowest priorities"]>>),
     Json(<<[id |-> 2, title |-> "Essay", description |-> "Essay",
             due_date |-> "soon", priority |-> "Medium priorities",
             status |-> "Pending", created_at |-> 0]>>)}

\* main(): manager = StudyManager() with the storage document doc
StartOn(doc, recordFreed, recordShown) ==
    /\ now = 0
    /\ file = FileAfterLoad(doc)
    /\ tasks = LoadEffect(doc, now).tasks
    /\ next_id = LoadEffect(doc, now).next_id
    /\ proc = "running"
    /\ last = Op(LoadEffect(doc, now).outcome, 0, "", "", "none")
    /\ freed = {}
    /\ runEmpty = (tasks = <<>>)
    /\ nAdds = 0
    /\ audit = recordFreed
    /\ shown = NoListing
    /\ listed = recordShown

StartWith(doc, recordFreed) == StartOn(doc, recordFreed, FALSE)

\* main(): manager = StudyManager(), no storage document yet
Start(recordFreed) == StartWith(Absent, recordFreed)

Init == Start(FALSE)
\* the wall clock advances
Tick ==
    /\ now < MaxClock
    /\ now' = now + 1
    /\ last' = Op("tick", 0, "", "", "none")
    /\ shown' = NoListing
    /\ UNCHANGED <<tasks, next_id, file, proc, freed, runEmpty, nAdds, audit, listed>>

\* choice 1. get_valid_input returns a stripped non-empty title,
\* get_valid_date a string strptime accepts, and the priority prompt a
\* string validate_priority accepts; the description may be empty.
add_task(title, description, due_date, priority_str) ==
    /\ proc = "running"
    /\ next_id <= MaxId
    /\ title # ""
    /\ ParsesAsDate(due_date)
    /\ validate_priority(priority_str)
    /\ LET eff == AddEffect(tasks, next_id, title, description, due_date,
                            Capitalize(priority_str), now)
       IN  IF eff.ok
           THEN \E o \in SaveOutcomes(eff.tasks, file) :
                   /\ tasks' = Committed(tasks, eff.tasks, o.res)
                   /\ next_id' = Committed(next_id, eff.next_id, o.res)
                   /\ file' = o.file
                   /\ last' = Op("added", eff.tasks[Len(eff.tasks)].id, "", description, o.res)
                   /\ nAdds' = nAdds + 1
           ELSE /\ tasks' = eff.tasks
                /\ next_id' = eff.next_id
                /\ last' = Op("add_failed", 0, "", description, "none")
                /\ UNCHANGED <<file, nAdds>>
    /\ shown' = NoListing
    /\ UNCHANGED <<now, proc, freed, runEmpty, audit, listed>>

\* choices 2, 3 and 4: filter_status "" stands for None
view_tasks(filter_status, sort_by) ==
    /\ proc = "running"
    /\ proc' = IF ViewRaises(tasks, filter_status) THEN "crashed" ELSE "running"
    /\ last' = Op("viewed", 0, filter_status, "", "none")
    /\ shown' = IF listed THEN Listing(tasks, filter_status, sort_by, now)
                ELSE NoListing
    /\ UNCHANGED <<tasks, next_id, file, now, freed, runEmpty, nAdds, audit, listed>>

\* choice 5
update_task_status(task_id, new_status_str) ==
    /\ proc = "running"
    /\ task_id > 0
    /\ validate_status(new_status_str)
    /\ IF ViewRaises(tasks, "Pending")
       THEN /\ proc' = "crashed"
            /\ last' = Op("update_view_raised", 0, "", "", "none")
            /\ UNCHANGED <<tasks, file>>
       ELSE IF ~AnyPending(tasks)
       THEN /\ last' = Op("update_no_pending", 0, "", "", "none")
            /\ UNCHANGED <<tasks, file, proc>>
       ELSE LET eff == UpdateEffect(tasks, task_id, new_status_str)
            IN  IF eff.outcome = "updated"
                THEN \E o \in SaveOutcomes(eff.tasks, file) :
                        /\ tasks' = Committed(tasks, eff.tasks, o.res)
                        /\ file' = o.file
                        /\ last' = Op("updated", task_id, new_status_str, "", o.res)
                        \* task_to_update.display()
                        /\ proc' = IF ParsesAsDate(tasks[Find(tasks, task_id)].due_date)
                                   THEN "running" ELSE "crashed"
                ELSE /\ last' = Op(eff.outcome, task_id,
                                   IF eff.outcome = "update_not_found"
                                   THEN "" ELSE new_status_str, "", "none")
                     /\ UNCHANGED <<tasks, file, proc>>
    \* self.view_tasks(filter_status="Pending")
    /\ shown' = IF listed THEN Listing(tasks, "Pending", "due_date", now)
                ELSE NoListing
    /\ UNCHANGED <<next_id, now, freed, runEmpty, nAdds, audit, listed>>

\* choice 6
delete_task(task_id, confirm) ==
    /\ proc = "running"
    /\ task_id > 0
    /\ Lower(confirm) \in {"yes", "no"}
    /\ IF tasks = <<>>
       THEN /\ last' = Op("delete_empty", 0, "", "", "none")
            /\ UNCHANGED <<tasks, file, proc, freed>>
       ELSE IF ViewRaises(tasks, "")
       THEN /\ proc' = "crashed"
            /\ last' = Op("delete_view_raised", 0, "", "", "none")
            /\ UNCHANGED <<tasks, file, freed>>
       ELSE LET eff == DeleteEffect(tasks, task_id, confirm)
            IN  IF eff.outcome = "deleted"
                THEN \E o \in SaveOutcomes(eff.tasks, file) :
                        /\ tasks' = Committed(tasks, eff.tasks, o.res)
                        /\ file' = o.file
                        /\ last' = Op("deleted", task_id, "", "", o.res)
                        /\ freed' = IF audit THEN freed \cup {task_id} ELSE freed
                        /\ UNCHANGED proc
                ELSE /\ last' = Op(eff.outcome, task_id, "", "", "none")
                     /\ UNCHANGED <<tasks, file, proc, freed>>
    \* self.view_tasks(), after the return on an empty collection
    /\ shown' = IF listed /\ tasks # <<>>
                THEN Listing(tasks, "", "due_date", now)
                ELSE NoListing
    /\ UNCHANGED <<next_id, now, runEmpty, nAdds, audit, listed>>

\* choice 7
Exit ==
    /\ proc = "running"
    /\ proc' = "exited"
    /\ last' = Op("exit", 0, "", "", "none")
    /\ shown' = NoListing
    /\ UNCHANGED <<tasks, next_id, file, now, freed, runEmpty, nAdds, audit, listed>>

\* the program is started again: main() builds a new StudyManager
Restart ==
    /\ proc # "running"
    /\ proc' = "running"
    /\ tasks' = LoadEffect(file, now).tasks
    /\ next_id' = LoadEffect(file, now).next_id
    /\ last' = Op(LoadEffect(file, now).outcome, 0, "", "", "none")
    /\ runEmpty' = (LoadEffect(file, now).tasks = <<>>)
    /\ nAdds' = 0
    /\ file' = FileAfterLoad(file)
    /\ shown' = NoListing
    /\ UNCHANGED <<now, freed, audit, listed>>

Add ==
    \E title \in {Strip(x) : x \in TextInputs},
       description \in {Strip(x) : x \in TextInputs},
       due_date \in DateInputs, priority_str \in PriorityInputs :
          add_task(title, description, due_date, priority_str)

\* main(): choice 2 asks for the sort order, choices 3 and 4 filter and sort
\* by due date
ViewChoices ==
    {<<"", "due_date">>, <<"", "priority">>, <<"", "title">>,
     <<"Pending", "due_date">>, <<"Completed", "due_date">>}

View == \E c \in ViewChoices : view_tasks(c[1], c[2])

Update ==
    \E task_id \in 1..(MaxId + 1), new_status_str \in StatusInputs :
          update_task_status(task_id, new_status_str)

Delete ==
    \E task_id \in 1..(MaxId + 1), confirm \in {"yes", "NO"} :
          delete_task(task_id, confirm)

Next == Tick \/ Add \/ View \/ Update \/ Delete \/ Exit \/ Restart

\* what a stored record may hold besides id, title and description
ListFields ==
    [due_date : {"2025-01-05", "2025-01-06", "2025-01-09", "2025-01-10"},
     priority : {"Highest priorities", "Medium priorities", "Lowest priorities"},
     status : {"Pending", "Completed"}]

\* documents written by earlier runs: up to MaxListLen records, ids 1, 2, ...
ListDocs ==
    UNION {{Json([i \in 1..n |->
                    [id |-> i, title |-> "Essay", description |-> "Essay",
                     due_date |-> c[i].due_date, priority |-> c[i].priority,
                     status |-> c[i].status, created_at |-> 0]])
              : c \in [1..n -> ListFields]}
           : n \in 1..MaxListLen}

\* the program started on one of these documents, then only looked at
InitList == \E doc \in ListDocs : StartOn(doc, FALSE, TRUE)

NextList == Tick \/ View

SpecList == InitList /\ [][NextList]_vars

Spec == Init /\ [][Next]_vars

\* the same program, with the ids of deleted tasks recorded in freed
InitAudit == Start(TRUE)

SpecAudit == InitAudit /\ [][Next]_vars

\* the same program, started on a document it did not write
InitForeign == \E doc \in ForeignDocs : StartWith(doc, FALSE)

\* no date of these documents is displayed: the clock stays where it is
NextForeign == Add \/ View \/ Update \/ Delete \/ Exit \/ Restart

SpecForeign == InitForeign /\ [][NextForeign]_vars

\* ================================================================ claims
Mutations == {"added", "updated", "deleted"}

\* the operations that read a task id from the user
IdOps ==
    {"update_not_found", "update_noop", "updated",
     "delete_not_found", "delete_cancelled", "deleted"}

\* C1: after an add, a status change or a confirmed delete whose save did
\* not fail, the storage document is exactly the serialization of the
\* in-memory collection (same tasks, same order, same field values).
C1_PersistedAfterMutation ==
    (last.op \in Mutations /\ last.save # "failed")
        => file = Json(Serialize(tasks))

C1_Witness ==
    /\ last.op = "updated"
    /\ last.save = "ok"
    /\ Len(tasks) >= 2
    /\ file = Json(Serialize(tasks))

\* C2: no add assigns an id that a task deleted earlier held, restarts of
\* the application included.
C2_NoFreedIdReassigned == last.op = "added" => last.id \notin freed

\* C3: every task of the collection has a positive id and no two tasks have
\* the same id (runs that start with no storage document, or with one this
\* program wrote).
C3_UniquePositiveIds ==
    /\ \A i \in 1..Len(tasks) : tasks[i].id > 0
    /\ \A i, j \in 1..Len(tasks) : i # j => tasks[i].id # tasks[j].id

C3_Witness ==
    /\ last.op = "added"
    /\ ~runEmpty
    /\ Len(tasks) >= 2

\* C4: in a run that started from an empty collection the n-th successful
\* add assigns id n, whatever deletes, updates and failed adds came between.
C4_NthAddAssignsN == (runEmpty /\ last.op = "added") => last.id = nAdds

C4_Witness ==
    /\ runEmpty
    /\ last.op = "added"
    /\ last.id = 2
    /\ Ids(tasks) = {2}

\* C5: reconstructing a task from its serialized record yields a task equal
\* to it on all seven attributes, created_at included.
C5_RoundTripLossless ==
    \A i \in 1..Len(tasks) :
        from_dict(to_dict(tasks[i]), now) = [ok |-> TRUE, task |-> tasks[i]]

\* C6: every task of the collection has its priority among High, Medium,
\* Low and its status among Pending, Completed.
C6_CanonicalEnums ==
    \A i \in 1..Len(tasks) :
        /\ tasks[i].priority \in {"High", "Medium", "Low"}
        /\ tasks[i].status \in {"Pending", "Completed"}

\* C7: an add whose Task construction raises leaves the task list, the next
\* id and the storage document as they were, and saves nothing.
C7_FailedAddChangesNothing ==
    [][(last'.op = "add_failed" \/ (last'.op = "added" /\ last'.description = ""))
         => /\ last'.op = "add_failed"
            /\ tasks' = tasks
            /\ next_id' = next_id
            /\ file' = file
            /\ last'.save = "none"]_vars

C7_Witness ==
    /\ last.op = "add_failed"
    /\ last.description = ""
    /\ tasks # <<>>

\* C8: an update or a delete given an id that no task has reports not-found
\* and leaves tasks, id tracker and storage document as they were, with no
\* save.
C8_UnknownIdChangesNothing ==
    [][(last'.op \in IdOps /\ last'.id \notin Ids(tasks))
         => /\ last'.op \in {"update_not_found", "delete_not_found"}
            /\ tasks' = tasks
            /\ next_id' = next_id
            /\ file' = file
            /\ last'.save = "none"]_vars

C8_Witness ==
    /\ last.op \in {"update_not_found", "delete_not_found"}
    /\ last.id \notin Ids(tasks)
    /\ tasks # <<>>

\* C9: an update whose new status, once capitalized, is the task's current
\* status changes no task and triggers no save.
C9_SameStatusIsNoop ==
    [][(/\ last'.op \in {"update_noop", "updated"}
        /\ \E i \in 1..Len(tasks) :
              /\ tasks[i].id = last'.id
              /\ tasks[i].status = Capitalize(last'.status))
         => /\ last'.op = "update_noop"
            /\ tasks' = tasks
            /\ next_id' = next_id
            /\ file' = file
            /\ last'.save = "none"]_vars

C9_Witness ==
    /\ last.op = "update_noop"
    /\ last.status = "pending"
    /\ \E i \in 1..Len(tasks) : tasks[i].id = last.id /\ tasks[i].status = "Pending"

\* C10: when the save of an add, a status update or a delete fails, the
\* collection and the id tracker are what a successful save would have left
\* and the process keeps running.
C10_FailedSaveKeepsMutation ==
    [][(last'.op \in Mutations /\ last'.save = "failed")
         => /\ proc' = "running"
            /\ last'.op = "added" =>
                  /\ Len(tasks') = Len(tasks) + 1
                  /\ SubSeq(tasks', 1, Len(tasks)) = tasks
                  /\ tasks'[Len(tasks')].id = next_id
                  /\ next_id' = next_id + 1
            /\ last'.op = "updated" =>
                  /\ \E i \in 1..Len(tasks) :
                        /\ tasks[i].id = last'.id
                        /\ tasks[i].status # Capitalize(last'.status)
                        /\ tasks' = [tasks EXCEPT ![i].status = Capitalize(last'.status)]
                  /\ next_id' = next_id
            /\ last'.op = "deleted" =>
                  /\ last'.id \in Ids(tasks)
                  /\ tasks' = SelectSeq(tasks, LAMBDA x : x.id # last'.id)
                  /\ next_id' = next_id]_vars

C10_Witness ==
    /\ last.op = "deleted"
    /\ last.save = "failed"
    /\ proc = "running"
    /\ file.kind = "json"
    /\ last.id \in Ids(file.data)
    /\ last.id \notin Ids(tasks)

\* the outcomes of a load
LoadOps == {"no_file", "loaded", "corrupt", "error"}

\* C11: loading a document that is not valid JSON gives an empty collection
\* with next id 1 and the corruption report, the process runs on, and the
\* document is still there, as it was.
C11_CorruptLoadsEmpty ==
    /\ (last.op \in LoadOps /\ file = Corrupt) => last.op = "corrupt"
    /\ last.op = "corrupt" =>
          /\ file = Corrupt
          /\ tasks = <<>>
          /\ next_id = 1
          /\ proc = "running"

C11_Witness ==
    /\ last.op = "corrupt"
    /\ file = Corrupt
    /\ tasks = <<>>
    /\ proc = "running"

\* a stored record of the older layout: id, title, description and due_date
\* are there and usable, priority or status is missing
OldRecord(d) ==
    /\ {"id", "title", "description", "due_date"} \subseteq DOMAIN d
    /\ d["id"] > 0
    /\ d["title"] # "" /\ d["description"] # "" /\ d["due_date"] # ""
    /\ ("priority" \in DOMAIN d => validate_priority(d["priority"]))
    /\ ("status" \in DOMAIN d => validate_status(d["status"]))
    /\ ~({"priority", "status"} \subseteq DOMAIN d)

\* C12: a stored record that lacks priority and/or status is reconstructed,
\* with priority Medium and/or status Pending.
C12_OldRecordsReconstruct ==
    file.kind = "json" =>
        \A i \in 1..Len(file.data) :
            OldRecord(file.data[i]) =>
                LET r == from_dict(file.data[i], now)
                IN  /\ r.ok
                    /\ "priority" \notin DOMAIN file.data[i] => r.task.priority = "Medium"
                    /\ "status" \notin DOMAIN file.data[i] => r.task.status = "Pending"

\* C16: the process never ends by an uncaught error, and every task of the
\* collection has a due_date that parses as a date.
C16_NoErrorEndsTheRun ==
    /\ proc # "crashed"
    /\ \A i \in 1..Len(tasks) : ParsesAsDate(tasks[i].due_date)

\* some record of the document fails Task reconstruction
HasBadRecord(f) ==
    /\ f.kind = "json"
    /\ \E i \in 1..Len(f.data) : ~from_dict(f.data[i], now).ok

\* C17, as claimed: a record that fails reconstruction makes the load fatal;
\* the run does not continue.
C17_BadRecordIsFatal ==
    (last.op \in LoadOps /\ HasBadRecord(file))
        => (tasks = <<>> /\ proc # "running")

\* C17, amended: a record that fails reconstruction makes the load drop every
\* record; the error is reported and the run continues with an empty
\* collection and next id 1.
C17_BadRecordLoadsNothing ==
    (last.op \in LoadOps /\ HasBadRecord(file))
        => /\ last.op = "error"
           /\ tasks = <<>>
           /\ next_id = 1
           /\ proc = "running"

C17_Witness ==
    /\ last.op = "error"
    /\ tasks = <<>>
    /\ proc = "running"
    /\ file.kind = "json"
    /\ Len(file.data) = 2
    /\ from_dict(file.data[1], now).ok
    /\ ~from_dict(file.data[2], now).ok

\* this run started from a document the load could not use, and nothing has
\* been added since
FellBack ==
    /\ runEmpty
    /\ nAdds = 0
    /\ (file = Corrupt \/ HasBadRecord(file))

UpdateOps ==
    {"update_view_raised", "update_no_pending", "update_not_found",
     "update_noop", "updated"}

\* C19: an update started while no task is Pending ends before any id is
\* asked for and changes nothing; a task is set back to Pending only by an
\* update started while some task is Pending.
C19_NoPendingNoUpdate ==
    [][last'.op \in UpdateOps =>
          /\ (\A i \in 1..Len(tasks) : tasks[i].status # "Pending") =>
                /\ last'.op = "update_no_pending"
                /\ last'.id = 0
                /\ last'.save = "none"
                /\ tasks' = tasks
                /\ file' = file
          /\ (last'.op = "updated" /\ Capitalize(last'.status) = "Pending") =>
                \E i \in 1..Len(tasks) : tasks[i].status = "Pending"]_vars

C19_Witness ==
    /\ last.op = "update_no_pending"
    /\ tasks # <<>>
    /\ \A i \in 1..Len(tasks) : tasks[i].status = "Completed"

\* the rank the priorities are listed by: highest first, lowest last
Rank(p) ==
    CASE p \in {"High", "Highest priorities"} -> 1
      [] p \in {"Medium", "Medium priorities"} -> 2
      [] p \in {"Low", "Lowest priorities"} -> 3
      [] OTHER -> 99

\* C13: a listing sorted by priority shows the tasks in ascending rank,
\* highest priority first, tasks of equal rank in their collection order.
C13_PriorityListingRanked ==
    (last.op = "viewed" /\ shown.sort_by = "priority") =>
        \A i, j \in 1..Len(shown.rows) :
            i < j =>
                /\ Rank(shown.rows[i].task.priority) <= Rank(shown.rows[j].task.priority)
                /\ Rank(shown.rows[i].task.priority) = Rank(shown.rows[j].task.priority)
                      => Find(tasks, shown.rows[i].task.id)
                            < Find(tasks, shown.rows[j].task.id)

\* C14: a listing sorted by due date is a permutation of the filtered tasks
\* with every Pending task before every Completed one, each status ascending
\* by due date, tasks of equal status and date in their collection order.
C14_DueDateListing ==
    (last.op = "viewed" /\ shown.sort_by = "due_date" /\ proc = "running") =>
        LET rows == shown.rows
            src == Filtered(tasks, shown.filter_status)
        IN  /\ Len(rows) = Len(src)
            /\ \A k \in 1..Len(src) : \E i \in 1..Len(rows) : rows[i].task = src[k]
            /\ \A i, j \in 1..Len(rows) :
                  i < j =>
                     /\ ~(rows[i].task.status = "Completed"
                            /\ rows[j].task.status = "Pending")
                     /\ rows[i].task.status = rows[j].task.status =>
                           /\ DateOrdinal(rows[i].task.due_date)
                                 <= DateOrdinal(rows[j].task.due_date)
                           /\ rows[i].task.due_date = rows[j].task.due_date =>
                                 Find(tasks, rows[i].task.id)
                                    < Find(tasks, rows[j].task.id)

C14_Witness ==
    /\ last.op = "viewed"
    /\ shown.sort_by = "due_date"
    /\ shown.filter_status = ""
    /\ Len(tasks) = 2
    /\ tasks[1].status = "Completed" /\ tasks[1].due_date = "2025-01-05"
    /\ tasks[2].status = "Pending" /\ tasks[2].due_date = "2025-01-10"
    /\ Len(shown.rows) = 2
    /\ shown.rows[1].task = tasks[2]
    /\ shown.rows[2].task = tasks[1]

\* C15: at whatever time of day a task is displayed, a Pending task due
\* today shows as due today, one due earlier as overdue, one due in 1 to 3
\* days as due soon, one due later as upcoming; a Completed task shows as
\* completed.
C15_DueStatusByCalendarDay ==
    \A i \in 1..Len(shown.rows) :
        LET task == shown.rows[i].task
            d == DateOrdinal(task.due_date) - (now \div TicksPerDay)
        IN  shown.rows[i].due =
               IF task.status = "Completed" THEN "Completed"
               ELSE IF d < 0 THEN "OVERDUE!"
               ELSE IF d = 0 THEN "Due Today!"
               ELSE IF d <= 3 THEN "day(s) left!"
               ELSE "days left"

====
